---- MODULE Spec2Model ----
(***************************************************************************)
(* findAngular (src/src/main.c): pairwise angular distance statistics over *)
(* star_array, computed by num_threads worker threads.                     *)
(*                                                                         *)
(* main parses -t, loads the catalog file into star_array and calls        *)
(* determineAverageAngularDistance, which partitions the outer index range *)
(* [0, NUM_STARS), creates one thread per segment, joins them, adds up the *)
(* per-thread sum/count and writes mean.  Each thread runs                 *)
(* determineAverageAngularDistanceThread and folds its local min/max into  *)
(* the globals min/max under min_max_mean_mutex.                           *)
(*                                                                         *)
(* Doubles are modelled by integers (whole degrees); a quotient of doubles *)
(* is kept as an exact fraction so that means can be compared.             *)
(*                                                                         *)
(* NUM_STARS, 30000 in the source, is a variable fixed by Init to a value  *)
(* in 0..MaxStars: it is the length of star_array and the bound of the     *)
(* partition and of the inner loop, i.e. the catalog size N the core       *)
(* works on.  star_count is the number of records read from the file;      *)
(* the entries of star_array beyond it keep their zero initialisation.     *)
(*                                                                         *)
(* Spec is the program with its resources granted: fopen,                  *)
(* pthread_mutex_init and pthread_create succeed and the file holds at     *)
(* most NUM_STARS records of three columns.                                *)
(***************************************************************************)
EXTENDS Integers, Sequences, FiniteSets, TLC

\* ------------------------------------------------------------------ bounds
\* Largest array capacity explored (the scaled-down values of NUM_STARS).
MaxStars == 3
\* Largest worker count requested with -t.
MaxThreads == 3

\* ------------------------------------------------------------- constants
\* DBL_MAX: larger than every angular distance (float.h).
DBL_MAX == 1000000

\* Sky positions a catalog line can hold: (RA, Dec) in degrees.
\* P0 is what a zero-initialised struct Star holds.
P0 == [RightAscension |-> 0, Declination |-> 0]
P1 == [RightAscension |-> 0, Declination |-> 90]
P2 == [RightAscension |-> 180, Declination |-> 0]
Points == {P0, P1, P2}

\* Great-circle separation in whole degrees (utility.c is not part of the
\* sources at hand; the values are those of the spherical law of cosines).
calculateAngularDistance(ra1, dec1, ra2, dec2) ==
  IF ra1 = ra2 /\ dec1 = dec2 THEN 0
  ELSE IF dec1 = 90 \/ dec2 = 90 THEN 90
  ELSE 180

\* ------------------------------------------------------------ C arithmetic
\* int / int, truncating toward zero (b /= 0).
CDiv(a, b) ==
  IF b > 0
    THEN (IF a >= 0 THEN a \div b ELSE -((-a) \div b))
    ELSE (IF a >= 0 THEN -(a \div (-b)) ELSE (-a) \div (-b))

\* double / double on the values the program produces: a finite quotient is
\* kept as the fraction num/den, 0/0 is NaN, x/0 is infinite.
DoubleDiv(s, c) ==
  IF c /= 0 THEN [kind |-> "num", num |-> s, den |-> c]
  ELSE IF s = 0 THEN [kind |-> "nan", num |-> 0, den |-> 1]
  ELSE [kind |-> "inf", num |-> s, den |-> 1]

\* ------------------------------------------------------------------ atoi
Digits == <<"0", "1", "2", "3", "4", "5", "6", "7", "8", "9">>
IsDigit(c) == \E d \in 1..10 : Digits[d] = c
DigitVal(c) == (CHOOSE d \in 1..10 : Digits[d] = c) - 1

RECURSIVE AtoiDigits(_, _)
\* Value of the leading run of digits of s, continuing from acc.
AtoiDigits(s, acc) ==
  IF s = <<>> \/ ~IsDigit(Head(s)) THEN acc
  ELSE AtoiDigits(Tail(s), acc * 10 + DigitVal(Head(s)))

\* atoi: optional sign, then digits up to the first non-digit; 0 if none.
atoi(s) ==
  IF s = <<>> THEN 0
  ELSE IF Head(s) = "-" THEN -AtoiDigits(Tail(s), 0)
  ELSE IF Head(s) = "+" THEN AtoiDigits(Tail(s), 0)
  ELSE AtoiDigits(s, 0)

\* The decimal spelling of a one-digit count, as typed on the command line.
Spell(n) == IF n < 0 THEN <<"-", Digits[(-n) + 1]>> ELSE <<Digits[n + 1]>>

\* Command lines: no option, -h, an unknown option, or -t <value>.
Optargs == {Spell(n) : n \in -1..MaxThreads} \cup {<<"a", "b", "c">>}
CommandLines ==
  {[opt |-> o, arg |-> <<>>] : o \in {"none", "h", "?"}}
    \cup {[opt |-> "t", arg |-> a] : a \in Optargs}

\* ------------------------------------------------------------------ state
Workers == 0..(MaxThreads - 1)
NONE == -1

VARIABLES
  NUM_STARS,          \* capacity of star_array (compile-time constant)
  argv,               \* the command line options not yet parsed
  file,               \* the unread records of data/tycho-trimmed.csv
  pc,                 \* position of the main thread
  num_threads,        \* main: num_threads
  star_count,         \* main: star_count
  star_array,         \* struct Star star_array[NUM_STARS]
  min, max, mean,     \* the global statistics
  min_max_mean_mutex, \* owner of the mutex, NONE when unlocked
  stars_per_thread,   \* determineAverageAngularDistance: stars_per_thread
  ci,                 \* determineAverageAngularDistance: loop index i
  total_sum, total_count,
  data,               \* ThreadData data[num_threads]
  tpc,                \* position of each worker thread
  ti, tj,             \* worker locals i, j
  tcount, tsum,       \* worker locals count, sum
  local_min, local_max,
  evals,              \* history: the pairs <<i, j>> each worker has evaluated
  acquired,           \* history: how often each worker has locked the mutex
  stdout,             \* the statistics main has printed
  exit_code           \* <<status>> once the process has exited, <<>> before

vars == <<NUM_STARS, argv, file, pc, num_threads, star_count, star_array,
          min, max, mean, min_max_mean_mutex, stars_per_thread, ci,
          total_sum, total_count, data, tpc, ti, tj, tcount, tsum,
          local_min, local_max, evals, acquired, stdout, exit_code>>

inputs == <<NUM_STARS, argv, file>>
mainVars == <<num_threads, star_count, star_array, stdout, exit_code>>
globals == <<min, max, mean, min_max_mean_mutex>>
coordVars == <<stars_per_thread, ci, total_sum, total_count>>
workerLocals == <<ti, tj, tcount, tsum, local_min, local_max, evals,
                  acquired>>

\* All sequences over S of length at most n.
SeqUpTo(S, n) == UNION {[1..k -> S] : k \in 0..n}

\* A slot of data[] that has not been written yet.
UNSET == -1

\* Exit status of a process killed by the arithmetic trap (128 + SIGFPE).
SIGFPE == 136

Init ==
  /\ NUM_STARS \in 0..MaxStars
  /\ argv \in CommandLines
  /\ file \in SeqUpTo(Points, NUM_STARS)
  /\ pc = "getopt"
  /\ num_threads = 1
  /\ star_count = 0
  /\ star_array = [k \in 0..(NUM_STARS - 1) |-> P0]
  /\ min = DBL_MAX
  /\ max = 0
  /\ mean = DoubleDiv(0, 1)
  /\ min_max_mean_mutex = NONE
  /\ stars_per_thread = 0
  /\ ci = 0
  /\ total_sum = 0
  /\ total_count = 0
  /\ data = <<>>
  /\ tpc = [w \in Workers |-> "notcreated"]
  /\ ti = [w \in Workers |-> 0]
  /\ tj = [w \in Workers |-> 0]
  /\ tcount = [w \in Workers |-> 0]
  /\ tsum = [w \in Workers |-> 0]
  /\ local_min = [w \in Workers |-> DBL_MAX]
  /\ local_max = [w \in Workers |-> 0]
  /\ evals = [w \in Workers |-> <<>>]
  /\ acquired = [w \in Workers |-> 0]
  /\ stdout = <<>>
  /\ exit_code = <<>>

\* ------------------------------------------------------------------- main
\* The command line once getopt has consumed its options.
Consumed == [opt |-> "none", arg |-> <<>>]

\* main, lines 163-177: the getopt loop.
ParseOptions ==
  /\ pc = "getopt"
  /\ \/ /\ argv.opt = "t"
        /\ num_threads' = atoi(argv.arg)
        /\ pc' = "mutex_init"
        /\ UNCHANGED exit_code
     \/ /\ argv.opt = "none"
        /\ pc' = "mutex_init"
        /\ UNCHANGED <<num_threads, exit_code>>
     \/ /\ argv.opt = "h"
        /\ pc' = "exited"
        /\ exit_code' = <<0>>
        /\ UNCHANGED num_threads
     \/ /\ argv.opt = "?"
        /\ pc' = "exited"
        /\ exit_code' = <<1>>
        /\ UNCHANGED num_threads
  /\ argv' = Consumed
  /\ UNCHANGED <<NUM_STARS, file, star_count, star_array, stdout, globals,
                 coordVars, data, tpc, workerLocals>>

\* main, lines 180-184: pthread_mutex_init succeeds.
MutexInit ==
  /\ pc = "mutex_init"
  /\ min_max_mean_mutex' = NONE
  /\ pc' = "load"
  /\ UNCHANGED <<inputs, mainVars, min, max, mean, coordVars, data, tpc,
                 workerLocals>>

\* The array after reading the records of f into its first Len(f) entries.
LoadedArray(arr, f) ==
  [k \in DOMAIN arr |-> IF k < Len(f) THEN f[k + 1] ELSE arr[k]]

\* main, lines 188-233: read the file into star_array, count the records.
LoadCatalog ==
  /\ pc = "load"
  /\ star_array' = LoadedArray(star_array, file)
  /\ star_count' = Len(file)
  /\ file' = <<>>
  /\ pc' = "call"
  /\ UNCHANGED <<NUM_STARS, argv, num_threads, stdout, exit_code, globals, coordVars,
                 data, tpc, workerLocals>>

\* main, lines 242-247: print the statistics and return 0.
PrintResults ==
  /\ pc = "print"
  /\ stdout' = <<[mean |-> mean, min |-> min, max |-> max]>>
  /\ exit_code' = <<0>>
  /\ pc' = "exited"
  /\ UNCHANGED <<inputs, num_threads, star_count, star_array, globals,
                 coordVars, data, tpc, workerLocals>>

\* ------------------------------------- determineAverageAngularDistance
\* Line 124: NUM_STARS / num_threads.
StarsPerThread(n, t) == CDiv(n, t)

\* Line 129: data[i].start.
SegStart(i, spt) == i * spt

\* Line 130 without the special case of the last thread.
SegEndNoRemainder(i, t, spt, n) == (i + 1) * spt

\* Line 130: data[i].end.
SegEnd(i, t, spt, n) == IF i = t - 1 THEN n ELSE (i + 1) * spt

\* Lines 119-124: the two variable-length arrays and stars_per_thread.
\* A division by zero (num_threads = 0) either traps or yields some value
\* that no later statement uses; an array of non-positive length is
\* declared without being touched.
EnterDetermine ==
  /\ pc = "call"
  /\ data' = [w \in 0..(num_threads - 1) |->
                [start |-> UNSET, end |-> UNSET, sum |-> UNSET, count |-> UNSET]]
  /\ ci' = 0
  /\ \/ /\ num_threads /= 0
        /\ stars_per_thread' = StarsPerThread(NUM_STARS, num_threads)
        /\ pc' = "create"
        /\ UNCHANGED exit_code
     \/ /\ num_threads = 0
        /\ stars_per_thread' = 0
        /\ pc' = "create"
        /\ UNCHANGED exit_code
     \/ /\ num_threads = 0
        /\ pc' = "crashed"
        /\ exit_code' = <<SIGFPE>>
        /\ UNCHANGED stars_per_thread
  /\ UNCHANGED <<inputs, num_threads, star_count, star_array, stdout, globals,
                 total_sum, total_count, tpc, workerLocals>>

\* Lines 127-133, one iteration: fill data[i] and start thread i.
CreateThread ==
  /\ pc = "create"
  /\ ci < num_threads
  /\ data' = [data EXCEPT ![ci].start = SegStart(ci, stars_per_thread),
                          ![ci].end = SegEnd(ci, num_threads, stars_per_thread,
                                             NUM_STARS)]
  /\ tpc' = [tpc EXCEPT ![ci] = "start"]
  /\ ci' = ci + 1
  /\ UNCHANGED <<inputs, pc, mainVars, globals, stars_per_thread, total_sum,
                 total_count, workerLocals>>

\* Line 127: the creation loop ends.
CreateDone ==
  /\ pc = "create"
  /\ ci >= num_threads
  /\ pc' = "join"
  /\ ci' = 0
  /\ UNCHANGED <<inputs, mainVars, globals, stars_per_thread, total_sum,
                 total_count, data, tpc, workerLocals>>

\* A join that does not wait.
JoinWithoutWaiting(w) == TRUE

\* pthread_join(threads[w]) returns once thread w has terminated.
Joinable(w) == tpc[w] = "done"

\* Lines 136-139, one iteration: wait for thread i.
JoinThread ==
  /\ pc = "join"
  /\ ci < num_threads
  /\ Joinable(ci)
  /\ ci' = ci + 1
  /\ UNCHANGED <<inputs, pc, mainVars, globals, stars_per_thread, total_sum,
                 total_count, data, tpc, workerLocals>>

\* Lines 136, 142-143: the join loop ends; total_sum and total_count start at 0.
JoinDone ==
  /\ pc = "join"
  /\ ci >= num_threads
  /\ pc' = "accumulate"
  /\ ci' = 0
  /\ total_sum' = 0
  /\ total_count' = 0
  /\ UNCHANGED <<inputs, mainVars, globals, stars_per_thread, data, tpc,
                 workerLocals>>

\* Lines 144-148, one iteration: add data[i].sum and data[i].count.
Accumulate ==
  /\ pc = "accumulate"
  /\ ci < num_threads
  /\ data[ci].count /= UNSET
  /\ total_sum' = total_sum + data[ci].sum
  /\ total_count' = total_count + data[ci].count
  /\ ci' = ci + 1
  /\ UNCHANGED <<inputs, pc, mainVars, globals, stars_per_thread, data, tpc,
                 workerLocals>>

\* Lines 144, 151: the loop ends; mean = total_sum / total_count; return.
WriteMean ==
  /\ pc = "accumulate"
  /\ ci >= num_threads
  /\ mean' = DoubleDiv(total_sum, total_count)
  /\ pc' = "print"
  /\ UNCHANGED <<inputs, mainVars, min, max, min_max_mean_mutex, coordVars,
                 data, tpc, workerLocals>>

\* --------------------------------- determineAverageAngularDistanceThread
\* The distance of the stars at indices a and b of star_array (lines 86-87).
Dist(a, b) ==
  calculateAngularDistance(star_array[a].RightAscension,
                           star_array[a].Declination,
                           star_array[b].RightAscension,
                           star_array[b].Declination)

\* Line 84 with the inner loop over the whole array.
InnerStartAtZero(i) == 0

\* Line 84 with the inner loop starting at i itself.
InnerStartAtI(i) == i

\* Line 84: the first j of the inner loop for outer index i.
InnerStart(i) == i + 1

\* Line 84: the bound of the inner loop.
InnerBound == NUM_STARS

\* Line 82 with the test i <= end.
OuterTestInclusive(w, i) == IF i <= data[w].end THEN "inner" ELSE "store"

\* Lines 82, 84: where thread w goes with outer index i: into the inner
\* loop while i < end, to the statements after the loops otherwise.
OuterTest(w, i) == IF i < data[w].end THEN "inner" ELSE "store"

\* Lines 71-84: read the segment, initialise the locals, first outer test.
WorkerBegin(w) ==
  /\ tpc[w] = "start"
  /\ ti' = [ti EXCEPT ![w] = data[w].start]
  /\ tj' = [tj EXCEPT ![w] = IF OuterTest(w, data[w].start) = "inner"
                                THEN InnerStart(data[w].start) ELSE @]
  /\ tcount' = [tcount EXCEPT ![w] = 0]
  /\ tsum' = [tsum EXCEPT ![w] = 0]
  /\ local_min' = [local_min EXCEPT ![w] = DBL_MAX]
  /\ local_max' = [local_max EXCEPT ![w] = 0]
  /\ tpc' = [tpc EXCEPT ![w] = OuterTest(w, data[w].start)]
  /\ UNCHANGED <<inputs, pc, mainVars, globals, coordVars, data, evals,
                 acquired>>

\* Lines 84-95, one iteration of the inner loop: one pair (i, j).
WorkerPair(w) ==
  /\ tpc[w] = "inner"
  /\ tj[w] < InnerBound
  /\ LET distance == Dist(ti[w], tj[w]) IN
       /\ tcount' = [tcount EXCEPT ![w] = @ + 1]
       /\ local_min' = [local_min EXCEPT
                          ![w] = IF @ > distance THEN distance ELSE @]
       /\ local_max' = [local_max EXCEPT
                          ![w] = IF @ < distance THEN distance ELSE @]
  /\ evals' = [evals EXCEPT ![w] = Append(@, <<ti[w], tj[w]>>)]
  /\ tj' = [tj EXCEPT ![w] = @ + 1]
  /\ UNCHANGED <<inputs, pc, mainVars, globals, coordVars, data, tpc, ti,
                 tsum, acquired>>

\* Lines 84, 82: the inner loop ends; i++; the outer test; j = i + 1.
WorkerInnerExit(w) ==
  /\ tpc[w] = "inner"
  /\ tj[w] >= InnerBound
  /\ ti' = [ti EXCEPT ![w] = @ + 1]
  /\ tj' = [tj EXCEPT ![w] = IF OuterTest(w, ti[w] + 1) = "inner"
                                THEN InnerStart(ti[w] + 1) ELSE @]
  /\ tpc' = [tpc EXCEPT ![w] = OuterTest(w, ti[w] + 1)]
  /\ UNCHANGED <<inputs, pc, mainVars, globals, coordVars, data, tcount,
                 tsum, local_min, local_max, evals, acquired>>

\* Lines 97-98 with the results stored in the first slot of data[].
WorkerStoreSlotZero(w) ==
  /\ tpc[w] = "store"
  /\ data' = [data EXCEPT ![0].sum = tsum[w], ![0].count = tcount[w]]
  /\ tpc' = [tpc EXCEPT ![w] = "lock"]
  /\ UNCHANGED <<inputs, pc, mainVars, globals, coordVars, workerLocals>>

\* Lines 97-98: publish sum and count in the thread's own slot.
WorkerStore(w) ==
  /\ tpc[w] = "store"
  /\ data' = [data EXCEPT ![w].sum = tsum[w], ![w].count = tcount[w]]
  /\ tpc' = [tpc EXCEPT ![w] = "lock"]
  /\ UNCHANGED <<inputs, pc, mainVars, globals, coordVars, workerLocals>>

\* A lock that is taken without waiting for its release.
LockWithoutWaiting(w) == min_max_mean_mutex' = w

\* Line 101: pthread_mutex_lock blocks until the mutex is free, then owns it.
pthread_mutex_lock(w) ==
  /\ min_max_mean_mutex = NONE
  /\ min_max_mean_mutex' = w

\* Line 101.
WorkerLock(w) ==
  /\ tpc[w] = "lock"
  /\ pthread_mutex_lock(w)
  /\ acquired' = [acquired EXCEPT ![w] = @ + 1]
  /\ tpc' = [tpc EXCEPT ![w] = "test_min"]
  /\ UNCHANGED <<inputs, pc, mainVars, min, max, mean, coordVars, data,
                 ti, tj, tcount, tsum, local_min, local_max, evals>>

\* Line 103: read min and compare.
WorkerTestMin(w) ==
  /\ tpc[w] = "test_min"
  /\ tpc' = [tpc EXCEPT ![w] = IF min > local_min[w] THEN "set_min"
                                                      ELSE "test_max"]
  /\ UNCHANGED <<inputs, pc, mainVars, globals, coordVars, data,
                 workerLocals>>

\* Line 104: min = local_min.
WorkerSetMin(w) ==
  /\ tpc[w] = "set_min"
  /\ min' = local_min[w]
  /\ tpc' = [tpc EXCEPT ![w] = "test_max"]
  /\ UNCHANGED <<inputs, pc, mainVars, max, mean, min_max_mean_mutex,
                 coordVars, data, workerLocals>>

\* Line 105: read max and compare.
WorkerTestMax(w) ==
  /\ tpc[w] = "test_max"
  /\ tpc' = [tpc EXCEPT ![w] = IF max < local_max[w] THEN "set_max"
                                                      ELSE "unlock"]
  /\ UNCHANGED <<inputs, pc, mainVars, globals, coordVars, data,
                 workerLocals>>

\* Line 106: max = local_max.
WorkerSetMax(w) ==
  /\ tpc[w] = "set_max"
  /\ max' = local_max[w]
  /\ tpc' = [tpc EXCEPT ![w] = "unlock"]
  /\ UNCHANGED <<inputs, pc, mainVars, min, mean, min_max_mean_mutex,
                 coordVars, data, workerLocals>>

\* Lines 108-110 without the unlock: the thread returns owning the mutex.
WorkerReturnsLocked(w) ==
  /\ tpc[w] = "unlock"
  /\ tpc' = [tpc EXCEPT ![w] = "done"]
  /\ UNCHANGED <<inputs, pc, mainVars, globals, coordVars, data,
                 workerLocals>>

\* Lines 108-110: pthread_mutex_unlock, return NULL.
WorkerUnlock(w) ==
  /\ tpc[w] = "unlock"
  /\ min_max_mean_mutex' = NONE
  /\ tpc' = [tpc EXCEPT ![w] = "done"]
  /\ UNCHANGED <<inputs, pc, mainVars, min, max, mean, coordVars, data,
                 workerLocals>>

\* ------------------------------------------------------------ the program
Next ==
  \/ ParseOptions
  \/ MutexInit
  \/ LoadCatalog
  \/ EnterDetermine
  \/ CreateThread
  \/ CreateDone
  \/ JoinThread
  \/ JoinDone
  \/ Accumulate
  \/ WriteMean
  \/ PrintResults
  \/ \E w \in Workers : WorkerBegin(w)
  \/ \E w \in Workers : WorkerPair(w)
  \/ \E w \in Workers : WorkerInnerExit(w)
  \/ \E w \in Workers : WorkerStore(w)
  \/ \E w \in Workers : WorkerLock(w)
  \/ \E w \in Workers : WorkerTestMin(w)
  \/ \E w \in Workers : WorkerSetMin(w)
  \/ \E w \in Workers : WorkerTestMax(w)
  \/ \E w \in Workers : WorkerSetMax(w)
  \/ \E w \in Workers : WorkerUnlock(w)

Spec == Init /\ [][Next]_vars

\* Types of the state.
TypeOK ==
  /\ NUM_STARS \in 0..MaxStars
  /\ num_threads \in -1..MaxThreads
  /\ min_max_mean_mutex \in Workers \cup {NONE}
  /\ DOMAIN star_array = 0..(NUM_STARS - 1)
  /\ \A w \in Workers : tcount[w] \in Nat /\ tsum[w] \in Nat

\* ---------------------------------------------------------------- claims
\* The phases of the run that follow the creation loop / the join loop.
AfterCreate == pc \in {"join", "accumulate", "print"} \/ stdout /= <<>>
AfterJoin == pc \in {"accumulate", "print"} \/ stdout /= <<>>
\* determineAverageAngularDistance has returned and main has not printed yet.
Returned == pc = "print"

\* Thread w is between its lock and its unlock.
InCritical(w) == tpc[w] \in {"test_min", "set_min", "test_max", "set_max", "unlock"}

\* C1: a worker is at a statement that reads or writes min or max only
\* while it owns min_max_mean_mutex, so at most one worker is inside the
\* compare-and-update at a time.
C1_MinMaxUnderMutex ==
  /\ \A w \in Workers : InCritical(w) => min_max_mean_mutex = w
  /\ \A v, w \in Workers : InCritical(v) /\ InCritical(w) => v = w

\* C1 witness: one worker is writing min while another waits for the mutex.
C1_Witness ==
  \E v, w \in Workers : v /= w /\ tpc[v] = "set_min" /\ tpc[w] = "lock"

\* C2: while the coordinator adds up sum/count, and once it has written
\* mean, exactly the num_threads workers were created and all have ended.
C2_JoinBarrier ==
  (AfterJoin /\ num_threads >= 1) =>
    \A w \in Workers :
      IF w < num_threads THEN tpc[w] = "done" ELSE tpc[w] = "notcreated"

\* C2 witness: the coordinator is in the middle of the accumulation loop of
\* a run with several workers.
C2_Witness == pc = "accumulate" /\ ci = 1 /\ num_threads >= 2

\* C3: the segments are contiguous from 0 to NUM_STARS, each with
\* start <= end, and every index of [0, NUM_STARS) lies in exactly one.
C3_Partition ==
  (AfterCreate /\ num_threads >= 1) =>
    /\ data[0].start = 0
    /\ data[num_threads - 1].end = NUM_STARS
    /\ \A i \in 0..(num_threads - 1) : data[i].start <= data[i].end
    /\ \A i \in 0..(num_threads - 2) : data[i].end = data[i + 1].start
    /\ \A k \in 0..(NUM_STARS - 1) :
         Cardinality({i \in 0..(num_threads - 1) :
                        data[i].start <= k /\ k < data[i].end}) = 1
    /\ \A i \in 0..(num_threads - 1) :
         \A k \in data[i].start..(data[i].end - 1) : k \in 0..(NUM_STARS - 1)

\* C3 witness: more workers than stars, with a remainder for the last one.
C3_Witness ==
  /\ pc = "join"
  /\ NUM_STARS >= 1
  /\ num_threads > NUM_STARS
  /\ data[num_threads - 1].end - data[num_threads - 1].start = NUM_STARS

RECURSIVE SumCounts(_)
\* data[0].count + ... + data[k - 1].count.
SumCounts(k) == IF k <= 0 THEN 0 ELSE SumCounts(k - 1) + data[k - 1].count

\* C4: after the join the workers' counts add up to N(N-1)/2.
C4_TotalCount ==
  (AfterJoin /\ num_threads >= 1 /\ NUM_STARS >= 2) =>
    2 * SumCounts(num_threads) = NUM_STARS * (NUM_STARS - 1)

\* C4 witness: joined, several workers, N not divisible by T.
C4_Witness ==
  /\ pc = "accumulate"
  /\ num_threads >= 2
  /\ NUM_STARS >= 3
  /\ NUM_STARS % num_threads /= 0

\* ------------------------------------------------ reference quantities
\* The unordered pairs of indices of star_array, as <<i, j>> with i < j.
AllPairs ==
  {p \in (0..(NUM_STARS - 1)) \X (0..(NUM_STARS - 1)) : p[1] < p[2]}

\* The distances of a set of index pairs.
DistancesOf(P) == {Dist(p[1], p[2]) : p \in P}

SetMin(S) == CHOOSE x \in S : \A y \in S : x <= y
SetMax(S) == CHOOSE x \in S : \A y \in S : x >= y

RECURSIVE SumDistances(_)
\* The sum of the distances of a set of index pairs.
SumDistances(P) ==
  IF P = {} THEN 0
  ELSE LET p == CHOOSE q \in P : TRUE
       IN Dist(p[1], p[2]) + SumDistances(P \ {p})

\* mean is the finite number n/d.
MeanIsFraction(n, d) ==
  mean.kind = "num" /\ mean.num * d = n * mean.den

\* The catalogs of the two scenarios of the specification.
ThreePoints == [k \in 0..2 |-> IF k = 0 THEN P0 ELSE IF k = 1 THEN P1 ELSE P2]
TwoIdentical == [k \in 0..1 |-> P1]

\* C5: the published mean is the sum of the distances of all unordered
\* pairs divided by their number.
C5_MeanIsAverage ==
  (Returned /\ num_threads >= 1 /\ NUM_STARS >= 2) =>
    MeanIsFraction(SumDistances(AllPairs), Cardinality(AllPairs))

\* C6: after the return min is the smallest and max the largest distance
\* over all unordered pairs; the three-point catalog gives 90, 180 and mean
\* 120, two identical points give 0, 0 and mean 0.
C6_MinMaxAndScenarios ==
  (Returned /\ num_threads >= 1 /\ NUM_STARS >= 2) =>
    /\ min = SetMin(DistancesOf(AllPairs))
    /\ max = SetMax(DistancesOf(AllPairs))
    /\ star_array = ThreePoints =>
         min = 90 /\ max = 180 /\ MeanIsFraction(120, 1)
    /\ star_array = TwoIdentical =>
         min = 0 /\ max = 0 /\ MeanIsFraction(0, 1)

\* The part of the previous statement that is about min and max alone.
MinMaxOverAllPairs ==
  (Returned /\ num_threads >= 1 /\ NUM_STARS >= 2) =>
    /\ min = SetMin(DistancesOf(AllPairs))
    /\ max = SetMax(DistancesOf(AllPairs))

\* C7: the published statistics satisfy min <= mean <= max.
C7_MinMeanMax ==
  (Returned /\ num_threads >= 1 /\ NUM_STARS >= 2) =>
    /\ mean.kind = "num"
    /\ min * mean.den <= mean.num
    /\ mean.num <= max * mean.den

\* `if (x > y) x = y` and `if (x < y) x = y` (lines 91-94, 103-106).
Lower(x, y) == IF x > y THEN y ELSE x
Higher(x, y) == IF x < y THEN y ELSE x

\* The pairs visited by thread i of t: lines 82-84 over lines 129-130.
SegPairs(i, t) ==
  LET spt == StarsPerThread(NUM_STARS, t)
  IN  UNION {{<<a, b>> : b \in InnerStart(a)..(InnerBound - 1)} :
               a \in SegStart(i, spt)..(SegEnd(i, t, spt, NUM_STARS) - 1)}

\* What a thread that visits the pairs P ends with (lines 77-98).
LocalMinOf(P) ==
  IF P = {} THEN DBL_MAX ELSE Lower(DBL_MAX, SetMin(DistancesOf(P)))
LocalMaxOf(P) ==
  IF P = {} THEN 0 ELSE Higher(0, SetMax(DistancesOf(P)))
LocalCountOf(P) == Cardinality(P)
\* sum is stored as it was initialised: no statement of the loop adds to it.
LocalSumOf(P) == 0

RECURSIVE InOrderMin(_, _), InOrderMax(_, _), InOrderCount(_, _), InOrderSum(_, _)
\* The globals and totals after threads 0..k-1 of t have run one after the
\* other, each to its end, in index order.
InOrderMin(k, t) ==
  IF k <= 0 THEN DBL_MAX
  ELSE Lower(InOrderMin(k - 1, t), LocalMinOf(SegPairs(k - 1, t)))
InOrderMax(k, t) ==
  IF k <= 0 THEN 0
  ELSE Higher(InOrderMax(k - 1, t), LocalMaxOf(SegPairs(k - 1, t)))
InOrderCount(k, t) ==
  IF k <= 0 THEN 0
  ELSE InOrderCount(k - 1, t) + LocalCountOf(SegPairs(k - 1, t))
InOrderSum(k, t) ==
  IF k <= 0 THEN 0
  ELSE InOrderSum(k - 1, t) + LocalSumOf(SegPairs(k - 1, t))

\* C8: whatever the interleaving, the run ends with the min, max and mean
\* of the run in which the same workers execute one after the other.
C8_ScheduleIndependent ==
  (Returned /\ num_threads >= 1) =>
    /\ min = InOrderMin(num_threads, num_threads)
    /\ max = InOrderMax(num_threads, num_threads)
    /\ mean = DoubleDiv(InOrderSum(num_threads, num_threads),
                        InOrderCount(num_threads, num_threads))

\* C8 witness: a later worker has folded its result into the globals and
\* ended while an earlier one is still in its loop.
C8_Witness ==
  \E v, w \in Workers :
    /\ v < w
    /\ tpc[w] = "done"
    /\ tpc[v] = "inner"
    /\ min < DBL_MAX

\* C9: a run with any worker count ends with the min and max of the run
\* with one worker and, when there is a pair, with an equal mean.
C9_WorkerCountInvariant ==
  (Returned /\ num_threads >= 1) =>
    /\ min = InOrderMin(1, 1)
    /\ max = InOrderMax(1, 1)
    /\ NUM_STARS >= 2 => MeanIsFraction(InOrderSum(1, 1), InOrderCount(1, 1))

\* C9 witness: a finished run with more workers than stars.
C9_Witness ==
  /\ Returned
  /\ NUM_STARS >= 2
  /\ num_threads > NUM_STARS

\* C10: with a worker count <= 0 no thread is created, nothing is printed
\* and the process does not end successfully.
C10_InvalidCountFailsFast ==
  (pc /= "getopt" /\ num_threads <= 0) =>
    /\ \A w \in Workers : tpc[w] = "notcreated"
    /\ stdout = <<>>
    /\ exit_code /= <<0>>

\* C11: with fewer than two records in the catalog the run ends without
\* dividing by a zero count, without printing statistics and without
\* reporting success.
C11_TooFewPositionsFails ==
  ((pc \in {"call", "create"} \/ AfterCreate)
     /\ num_threads >= 1 /\ star_count < 2) =>
    /\ mean.kind = "num"
    /\ stdout = <<>>
    /\ exit_code /= <<0>>

\* ------------------------------------------------- resources refused
\* Exit status of a process killed by a memory fault (128 + SIGSEGV).
SIGSEGV == 139

\* What an uninitialised double or uint64_t of the stack may hold.
Garbage == {0, 7}

\* main, lines 180-184: pthread_mutex_init fails; message, exit(1).
MutexInitFails ==
  /\ pc = "mutex_init"
  /\ pc' = "exited"
  /\ exit_code' = <<1>>
  /\ UNCHANGED <<inputs, num_threads, star_count, star_array, stdout, globals,
                 coordVars, data, tpc, workerLocals>>

\* Lines 127-133, one iteration in which pthread_create fails: its result
\* is not looked at, threads[i] stays uninitialised, no thread runs.
CreateThreadFails ==
  /\ pc = "create"
  /\ ci < num_threads
  /\ data' = [data EXCEPT ![ci].start = SegStart(ci, stars_per_thread),
                          ![ci].end = SegEnd(ci, num_threads, stars_per_thread,
                                             NUM_STARS)]
  /\ tpc' = [tpc EXCEPT ![ci] = "failed"]
  /\ ci' = ci + 1
  /\ UNCHANGED <<inputs, pc, mainVars, globals, stars_per_thread, total_sum,
                 total_count, workerLocals>>

\* Lines 136-139, one iteration on a thread that was never created:
\* pthread_join on an uninitialised handle returns an error that is not
\* looked at, or faults.
JoinFailedThread ==
  /\ pc = "join"
  /\ ci < num_threads
  /\ tpc[ci] = "failed"
  /\ \/ /\ ci' = ci + 1
        /\ UNCHANGED <<pc, exit_code>>
     \/ /\ pc' = "crashed"
        /\ exit_code' = <<SIGSEGV>>
        /\ UNCHANGED ci
  /\ UNCHANGED <<inputs, num_threads, star_count, star_array, stdout, globals,
                 stars_per_thread, total_sum, total_count, data, tpc,
                 workerLocals>>

\* Lines 144-148, one iteration on a slot no thread has written: sum and
\* count are whatever the stack held.
AccumulateUninitialised ==
  /\ pc = "accumulate"
  /\ ci < num_threads
  /\ data[ci].count = UNSET
  /\ \E gs \in Garbage, gc \in Garbage :
       /\ total_sum' = total_sum + gs
       /\ total_count' = total_count + gc
  /\ ci' = ci + 1
  /\ UNCHANGED <<inputs, pc, mainVars, globals, stars_per_thread, data, tpc,
                 workerLocals>>

NextFail ==
  \/ Next
  \/ MutexInitFails
  \/ CreateThreadFails
  \/ JoinFailedThread
  \/ AccumulateUninitialised

\* The program when pthread_mutex_init or pthread_create may fail.
SpecFail == Init /\ [][NextFail]_vars

\* C12: once the creation of a thread has failed, the coordinator does not
\* go past that slot in the join loop, does not reach the accumulation,
\* nothing is printed and the process does not end successfully.
C12_CreateFailureAborts ==
  \A w \in Workers :
    tpc[w] = "failed" =>
      /\ ~(pc = "join" /\ ci > w)
      /\ pc \notin {"accumulate", "print"}
      /\ stdout = <<>>
      /\ exit_code /= <<0>>

\* ------------------------------------------------------------- phases
\* 0 NotStarted, 1 WorkersRunning (creation and join loops), 2 Joined
\* (accumulation), 3 Reduced (mean written; printing and exit follow).
PhaseRank ==
  IF pc \in {"create", "join"} THEN 1
  ELSE IF pc = "accumulate" THEN 2
  ELSE IF pc = "print" \/ stdout /= <<>> THEN 3
  ELSE 0

\* The threads that have been started so far.
Spawned == {w \in Workers : tpc[w] /= "notcreated"}

\* C13: the phase never goes back and advances one phase at a time; no
\* thread exists before WorkersRunning, the creation loop spawns one thread
\* per iteration and num_threads in all; in Reduced no step changes min,
\* max or mean.
C13_PhasesForward ==
  /\ [][/\ PhaseRank' \in {PhaseRank, PhaseRank + 1}
        /\ PhaseRank = 3 => UNCHANGED <<min, max, mean>>]_vars
  /\ [](PhaseRank = 0 => Spawned = {})
  /\ []((PhaseRank >= 1 /\ num_threads >= 1) =>
          Cardinality(Spawned) = IF pc = "create" THEN ci ELSE num_threads)

\* C13 witness: Reduced is reached by a run of several workers that found
\* at least one pair.
C13_Witness ==
  /\ PhaseRank = 3
  /\ num_threads >= 2
  /\ min < DBL_MAX
  /\ mean.kind = "num"

\* ----------------------------------------------------------- progress
\* Progress does not depend on where the stars are beyond the outcome of
\* the four comparisons of lines 91-94 and 103-106, all of which occur
\* with catalogs over two positions (distances 0 and 90).
FairPoints == {P0, P1}
InitFair == Init /\ \A k \in DOMAIN file : file[k] \in FairPoints

\* The program under a scheduler that keeps running it while some thread
\* can take a step.
FairSpec == InitFair /\ [][Next]_vars /\ WF_vars(Next)

\* The process has ended.
Terminated == pc \in {"exited", "crashed"}

\* C14: a state in which no thread can take a step is a state after the
\* end of the process, and a run with N >= 2 and T >= 1 that enters
\* determineAverageAngularDistance reaches Reduced with every worker
\* ended and the mutex released.
C14_RunsToCompletion ==
  /\ [](Terminated \/ ENABLED Next)
  /\ (pc = "call" /\ num_threads >= 1 /\ NUM_STARS >= 2)
       ~> (/\ PhaseRank = 3
           /\ \A w \in 0..(num_threads - 1) : tpc[w] = "done"
           /\ min_max_mean_mutex = NONE)

\* C14 witness: a worker waits for the mutex that another one owns.
C14_Witness ==
  \E v, w \in Workers :
    /\ v /= w
    /\ tpc[v] = "lock"
    /\ min_max_mean_mutex = w
    /\ NUM_STARS >= 2

\* C15: the partition and the loops are bounded by the number of records
\* loaded: the last segment ends at star_count, a worker about to read
\* arr[i] and arr[j] has i, j < star_count, and the counts add up to
\* star_count (star_count - 1) / 2.
C15_BoundsFollowCatalog ==
  /\ (AfterCreate /\ num_threads >= 1) =>
       data[num_threads - 1].end = star_count
  /\ \A w \in Workers :
       (tpc[w] = "inner" /\ tj[w] < InnerBound) =>
         (ti[w] < star_count /\ tj[w] < star_count)
  /\ (AfterJoin /\ num_threads >= 1) =>
       2 * SumCounts(num_threads) = star_count * (star_count - 1)

\* ------------------------------------------------------ worker frame
\* The step is one of the running thread k: its position or its loop
\* indices change.
Moved(k) ==
  /\ tpc[k] /= "notcreated"
  /\ <<tpc[k], ti[k], tj[k]>>' /= <<tpc[k], ti[k], tj[k]>>

EmptySegment(w) ==
  /\ tpc[w] /= "notcreated"
  /\ data[w].start = data[w].end

\* C17: a worker with an empty segment evaluates no pair, stores count 0,
\* never reaches the assignments to min and max, and none of its steps
\* changes min or max.
C17_EmptySegmentNeutral ==
  /\ [](\A w \in Workers :
          EmptySegment(w) =>
            /\ tcount[w] = 0
            /\ evals[w] = <<>>
            /\ tpc[w] \notin {"inner", "set_min", "set_max"}
            /\ tpc[w] \in {"lock", "test_min", "test_max", "unlock", "done"}
                 => data[w].count = 0)
  /\ [][\A w \in Workers :
          (EmptySegment(w) /\ Moved(w)) => UNCHANGED <<min, max>>]_vars

\* C17 witness: a worker with an empty segment has gone through its
\* critical section after another worker had set min and max.
C17_Witness ==
  \E w \in Workers :
    /\ EmptySegment(w)
    /\ tpc[w] = "unlock"
    /\ min < DBL_MAX
    /\ max > 0

\* The other order: the worker with the empty segment is in its critical
\* section before any other worker has written min or max.
EmptyFirst ==
  \E w \in Workers :
    /\ EmptySegment(w)
    /\ tpc[w] = "unlock"
    /\ min = DBL_MAX
    /\ NUM_STARS >= 2

\* ------------------------------------------------------ load imbalance
\* C18 as stated: for every T >= 2 the workers' counts are pairwise
\* different and the first worker counts more than the last (taken here
\* for the catalogs that hold at least one pair, N >= 2).
C18_CountsAllDiffer ==
  (AfterJoin /\ num_threads >= 2 /\ NUM_STARS >= 2) =>
    /\ \A v, w \in 0..(num_threads - 1) :
         v /= w => data[v].count /= data[w].count
    /\ data[0].count > data[num_threads - 1].count

\* C18 amended: when N >= 1 is divisible by T >= 2, the counts decrease
\* strictly with the worker index (so they are pairwise different and
\* the first is larger than the last).
C18_CountsDecreaseWhenDivisible ==
  (AfterJoin /\ num_threads >= 2 /\ NUM_STARS >= 1
     /\ NUM_STARS % num_threads = 0) =>
    \A v, w \in 0..(num_threads - 1) :
      v < w => data[v].count > data[w].count

\* C18 witness: a joined run of several workers with N divisible by T.
C18_Witness ==
  /\ pc = "accumulate"
  /\ num_threads >= 2
  /\ NUM_STARS >= 1
  /\ NUM_STARS % num_threads = 0
  /\ data[0].count > 0

\* ------------------------------------------------------ pair coverage
\* The pairs evaluated so far, by any worker.
Evaluated == UNION {{evals[w][k] : k \in 1..Len(evals[w])} : w \in Workers}

\* C19: every evaluation is of a pair <<i, j>> with 0 <= i < j < N made by
\* the worker whose segment holds i, no pair is evaluated twice (by one
\* worker or by two), and after the join the evaluated pairs are exactly
\* the unordered pairs of [0, N).
C19_EachPairOnce ==
  /\ \A w \in Workers : \A k \in 1..Len(evals[w]) :
       LET p == evals[w][k] IN
         /\ 0 <= p[1] /\ p[1] < p[2] /\ p[2] < NUM_STARS
         /\ data[w].start <= p[1] /\ p[1] < data[w].end
  /\ \A v, w \in Workers : \A k \in 1..Len(evals[v]), l \in 1..Len(evals[w]) :
       evals[v][k] = evals[w][l] => (v = w /\ k = l)
  /\ (AfterJoin /\ num_threads >= 1) => Evaluated = AllPairs

\* C19 witness: after the join of a run in which two workers have each
\* evaluated pairs.
C19_Witness ==
  /\ pc = "accumulate"
  /\ \E v, w \in Workers : v /= w /\ evals[v] /= <<>> /\ evals[w] /= <<>>

\* -------------------------------------------------------- mutex usage
\* C20: a worker locks the mutex at most once, not before its loops are
\* over and its sum and count are stored, and has locked it once and
\* released it when it ends; no worker owns it while in its loops; after
\* the join the mutex is free.
C20_LockOnceAfterLoop ==
  /\ \A w \in Workers :
       /\ acquired[w] <= 1
       /\ tpc[w] \in {"notcreated", "start", "inner", "store", "lock"} =>
            (acquired[w] = 0 /\ min_max_mean_mutex /= w)
       /\ min_max_mean_mutex = w =>
            /\ InCritical(w)
            /\ acquired[w] = 1
            /\ ~(ti[w] < data[w].end)
            /\ data[w].sum = tsum[w]
            /\ data[w].count = tcount[w]
       /\ tpc[w] = "done" => (acquired[w] = 1 /\ min_max_mean_mutex /= w)
  /\ AfterJoin => min_max_mean_mutex = NONE

\* C20 witness: one worker owns the mutex while another is still
\* evaluating pairs.
C20_Witness ==
  \E v, w \in Workers :
    /\ v /= w
    /\ min_max_mean_mutex = w
    /\ acquired[w] = 1
    /\ tpc[v] = "inner"
    /\ evals[v] /= <<>>

====
